---- MODULE Spec2Model ----
(***************************************************************************)
(* A model of the file-backed JSON store of src/main.go: the Driver with   *)
(* its registry of per-collection mutexes, and the operations New, Write,  *)
(* Read, ReadAll and Delete as they act, one system call at a time, on a   *)
(* directory tree.                                                         *)
(*                                                                         *)
(* Strings are sequences of tokens ("a", "b", "/", ".json", ".tmp"), so    *)
(* that s + ".json" is Append(s, ".json") and filepath.Join/Clean really   *)
(* split at "/".  A path is the sequence of its components.  A file's      *)
(* content is the sequence of the tokens written to it.                    *)
(***************************************************************************)
EXTENDS Integers, Sequences, FiniteSets, TLC

\* Bounds of the model.
NumThreads == 2
MaxOps == 3
MaxCrashes == 1

Threads == 1..NumThreads

-----------------------------------------------------------------------------
(* Strings and paths (path/filepath).                                      *)

\* The separator-split of a string, empty components dropped: what
\* filepath.Clean keeps of a string without "." and ".." elements.
RECURSIVE SplitPath(_, _, _)
SplitPath(s, cur, acc) ==
  IF s = <<>>
  THEN IF cur = <<>> THEN acc ELSE Append(acc, cur)
  ELSE IF Head(s) = "/"
       THEN SplitPath(Tail(s), <<>>, IF cur = <<>> THEN acc ELSE Append(acc, cur))
       ELSE SplitPath(Tail(s), Append(cur, Head(s)), acc)

Clean(s) ==
  SplitPath(s, <<>>, <<>>)

\* filepath.Join(base, elem): base is a cleaned path, elem a string.
Join(base, elem) ==
  base \o Clean(elem)

\* path + ext, on the string of a cleaned, non-empty path.
AddExt(p, ext) ==
  [p EXCEPT ![Len(p)] = Append(@, ext)]

\* d.dir, the cleaned root directory given to New.
DbDir ==
  << <<"db">> >>

\* Write: dir := filepath.Join(d.dir, collection)
CollectionDir(collection) ==
  Join(DbDir, collection)

\* The final path without its extension.
fnlPathNoExt(collection, resource) ==
  Join(CollectionDir(collection), resource)

\* Write: fnlPath := filepath.Join(dir, resource+".json")
fnlPath(collection, resource) ==
  Join(CollectionDir(collection), Append(resource, ".json"))

\* Write: tmpPath := fnlPath + ".tmp"
tmpPath(collection, resource) ==
  AddExt(fnlPath(collection, resource), ".tmp")

\* Read: record := filepath.Join(d.dir, collection, resource)
RecordPath(collection, resource) ==
  Join(Join(DbDir, collection), resource)

\* Delete with path := collection: the resource is left out of the target.
DeleteTargetNoResource(collection, resource) ==
  DbDir \o Clean(collection)

\* Delete: path := filepath.Join(collection, resource); dir := filepath.Join(d.dir, path)
DeleteTarget(collection, resource) ==
  DbDir \o (Clean(collection) \o Clean(resource))

IsPrefix(p, q) ==
  Len(p) <= Len(q) /\ SubSeq(q, 1, Len(p)) = p

Parent(p) ==
  SubSeq(p, 1, Len(p) - 1)

-----------------------------------------------------------------------------
(* The directory tree: a function from the paths that exist to their       *)
(* nodes.  The parent of d.dir (the empty path) always exists.             *)

DirNode ==
  [kind |-> "dir", data |-> <<>>]

FileNode(b) ==
  [kind |-> "file", data |-> b]

Exists(f, p) ==
  p = <<>> \/ p \in DOMAIN f

IsDirAt(f, p) ==
  p = <<>> \/ (p \in DOMAIN f /\ f[p].kind = "dir")

IsFileAt(f, p) ==
  p \in DOMAIN f /\ f[p].kind = "file"

\* Some proper prefix of p is a regular file: the lookup of p ends ENOTDIR.
UnderFile(f, p) ==
  \E n \in 1..(Len(p) - 1) : IsFileAt(f, SubSeq(p, 1, n))

\* os.Stat: the kind of the node ("dir", "file") or the errno.
osStat(f, p) ==
  IF UnderFile(f, p) THEN "ENOTDIR"
  ELSE IF ~Exists(f, p) THEN "ENOENT"
  ELSE IF IsDirAt(f, p) THEN "dir" ELSE "file"

IsErrno(x) ==
  x \in {"ENOENT", "ENOTDIR", "EISDIR", "EEXIST"}

\* stat: os.Stat(path), and os.Stat(path + ".json") when the first is IsNotExist.
stat(f, p) ==
  IF osStat(f, p) = "ENOENT" THEN osStat(f, AddExt(p, ".json")) ELSE osStat(f, p)

\* os.MkdirAll: every prefix of p becomes a directory, unless one is a file.
MkdirAllErr(f, p) ==
  IF \E n \in 1..Len(p) : IsFileAt(f, SubSeq(p, 1, n)) THEN "ENOTDIR" ELSE "nil"

MkdirAllFs(f, p) ==
  IF MkdirAllErr(f, p) # "nil" THEN f
  ELSE LET new == {SubSeq(p, 1, n) : n \in 1..Len(p)} \ DOMAIN f
       IN [q \in DOMAIN f \cup new |-> IF q \in DOMAIN f THEN f[q] ELSE DirNode]

\* os.RemoveAll given the directory that holds p.
RemoveAllFsOfParent(f, p) ==
  [q \in {x \in DOMAIN f : ~IsPrefix(Parent(p), x)} |-> f[q]]

\* os.RemoveAll: p and everything below it goes; a missing p is no error.
RemoveAllFs(f, p) ==
  [q \in {x \in DOMAIN f : ~IsPrefix(p, x)} |-> f[q]]

\* os.WriteFile, first half: open(name, O_WRONLY|O_CREATE|O_TRUNC).
OpenTruncErr(f, p) ==
  IF UnderFile(f, p) THEN "ENOTDIR"
  ELSE IF ~IsDirAt(f, Parent(p)) THEN "ENOENT"
  ELSE IF IsDirAt(f, p) THEN "EISDIR" ELSE "nil"

OpenTruncFs(f, p) ==
  IF OpenTruncErr(f, p) # "nil" THEN f
  ELSE [q \in DOMAIN f \cup {p} |-> IF q = p THEN FileNode(<<>>) ELSE f[q]]

\* os.WriteFile, second half: write(fd, data) on the file the descriptor opened,
\* wherever a rename has moved it; a file no path names any more takes the bytes
\* with it.
WriteFdFs(f, fd, b) ==
  IF IsFileAt(f, fd) THEN [f EXCEPT ![fd] = FileNode(b)] ELSE f

\* os.Rename of a regular file.
RenameErr(f, old, new) ==
  IF UnderFile(f, old) \/ UnderFile(f, new) THEN "ENOTDIR"
  ELSE IF ~Exists(f, old) \/ ~IsDirAt(f, Parent(new)) THEN "ENOENT"
  ELSE IF IsFileAt(f, old) /\ IsDirAt(f, new) THEN "EEXIST"
  ELSE "nil"

RenameFs(f, old, new) ==
  IF RenameErr(f, old, new) # "nil" THEN f
  ELSE [q \in (DOMAIN f \ {old}) \cup {new} |-> IF q = new THEN f[old] ELSE f[q]]

\* os.ReadFile.
ReadFileErr(f, p) ==
  IF osStat(f, p) = "dir" THEN "EISDIR"
  ELSE IF osStat(f, p) = "file" THEN "nil" ELSE osStat(f, p)

ReadFileData(f, p) ==
  IF IsFileAt(f, p) THEN f[p].data ELSE <<>>

\* The byte order of file names, on tokens: '.' sorts before the letters.
TokenRank(tok) ==
  CASE tok = ".json" -> 1
    [] tok = ".tmp" -> 2
    [] tok = "a" -> 3
    [] tok = "b" -> 4
    [] OTHER -> 5

RECURSIVE NameLess(_, _)
NameLess(x, y) ==
  IF x = <<>> THEN y # <<>>
  ELSE IF y = <<>> THEN FALSE
  ELSE IF Head(x) = Head(y) THEN NameLess(Tail(x), Tail(y))
  ELSE TokenRank(Head(x)) < TokenRank(Head(y))

RECURSIVE SortNames(_)
SortNames(S) ==
  IF S = {} THEN <<>>
  ELSE LET m == CHOOSE x \in S : \A y \in S \ {x} : NameLess(x, y)
       IN <<m>> \o SortNames(S \ {m})

\* os.ReadDir that loses the first name of the directory.
ReadDirNamesSkipFirst(f, p) ==
  IF osStat(f, p) # "dir" THEN <<>>
  ELSE LET S == {q[Len(q)] : q \in {x \in DOMAIN f : Len(x) = Len(p) + 1 /\ IsPrefix(p, x)}}
       IN IF S = {} THEN <<>> ELSE Tail(SortNames(S))

\* os.ReadDir: the names in the directory, sorted by file name; nothing when the
\* directory cannot be read.
ReadDirNames(f, p) ==
  IF osStat(f, p) # "dir" THEN <<>>
  ELSE SortNames({q[Len(q)] : q \in {x \in DOMAIN f : Len(x) = Len(p) + 1 /\ IsPrefix(p, x)}})

-----------------------------------------------------------------------------
(* Values and encoding/json.                                               *)

Obj(fields) ==
  [tag |-> "obj", fields |-> fields]

\* A value json.Marshal refuses (a channel, a function).
Chan ==
  [tag |-> "chan", fields |-> <<>>]

NoValue ==
  [tag |-> "none", fields |-> <<>>]

Values ==
  {Obj(<<"John">>), Obj(<<"Paul">>)}

\* json.MarshalIndent(v, "", "\t")
MarshalErr(v) ==
  IF v.tag = "obj" THEN "nil" ELSE "UnsupportedType"

MarshalIndent(v) ==
  <<"{">> \o v.fields \o <<"}">>

\* Write that serializes the zero value in place of v.
SerializeZeroValue(v) ==
  Append(MarshalIndent(Obj(<<>>)), "\n")

\* Write: b = append(b, byte('\n'))
Serialize(v) ==
  Append(MarshalIndent(v), "\n")

RECURSIVE StripSpace(_)
StripSpace(b) ==
  IF b # <<>> /\ b[Len(b)] = "\n" THEN StripSpace(SubSeq(b, 1, Len(b) - 1)) ELSE b

\* json.Unmarshal: one object, white space around it allowed.
UnmarshalErr(b) ==
  LET s == StripSpace(b)
  IN IF Len(s) >= 2 /\ s[1] = "{" /\ s[Len(s)] = "}"
        /\ \A i \in 2..(Len(s) - 1) : s[i] \notin {"{", "}", "\n"}
     THEN "nil" ELSE "SyntaxError"

Unmarshal(b) ==
  LET s == StripSpace(b)
  IN IF UnmarshalErr(b) = "nil" THEN Obj(SubSeq(s, 2, Len(s) - 1)) ELSE NoValue

-----------------------------------------------------------------------------
(* The names and values the callers pass.                                  *)

\* "", "a", "a/" and "a/b"
CollectionNames ==
  {<<>>, <<"a">>, <<"a", "/">>, <<"a", "/", "b">>}

\* "" and "b"
ResourceNames ==
  {<<>>, <<"b">>}

WriteValues ==
  Values \cup {Chan}

-----------------------------------------------------------------------------
(* The state.                                                              *)

VARIABLES
  fs,        \* the directory tree
  mutex,     \* Driver.mutex: the thread that holds it, 0 when free
  mutexes,   \* Driver.mutexes: collection name -> the lock made for it
  locks,     \* the locks made so far: locks[m] is the holder of lock m, 0 when free
  th,        \* each calling thread: its call, its place in it, its locals, its last result
  up,        \* the process runs and New has returned its Driver
  ops,       \* calls made so far
  crashes,   \* process interruptions so far
  written    \* <<collection, resource, value>> of the Writes that returned nil, until a Delete of them returns nil

vars == <<fs, mutex, mutexes, locks, th, up, ops, crashes, written>>

\* No open descriptor.
NoFd ==
  <<>>

\* The descriptor of a file that no path names any more.
Unlinked ==
  << <<"(deleted)">> >>

IdleThread ==
  [pc |-> "idle", op |-> "none", c |-> <<>>, r |-> <<>>, v |-> NoValue, m |-> 0,
   fd |-> NoFd, fi |-> "none", files |-> <<>>, recs |-> <<>>, err |-> "none",
   val |-> NoValue]

\* The thread on entry to a call.
Enter(op, c, r, v, pc) ==
  [IdleThread EXCEPT !.pc = pc, !.op = op, !.c = c, !.r = r, !.v = v]

\* The thread after its call has returned err (and the value or records read).
Returned(s, err, val, recs) ==
  [IdleThread EXCEPT !.op = s.op, !.c = s.c, !.r = s.r, !.v = s.v,
                     !.err = err, !.val = val, !.recs = recs]

\* A return that leaves the collection lock held.
UnlockNothing(lk, m) ==
  lk

\* defer mutex.Unlock()
Unlock(lk, m) ==
  IF m = 0 THEN lk ELSE [lk EXCEPT ![m] = 0]

\* The open descriptors of the threads other than t after old was renamed to new.
FdsAfterRename(t, old, new) ==
  [u \in Threads |->
     IF u = t THEN th[u]
     ELSE IF th[u].fd = old /\ old # NoFd THEN [th[u] EXCEPT !.fd = new]
     ELSE IF th[u].fd = new THEN [th[u] EXCEPT !.fd = Unlinked]
     ELSE th[u]]

\* The open descriptors of the threads after p and all below it was removed.
FdsAfterRemove(p) ==
  [u \in Threads |->
     IF th[u].fd # NoFd /\ IsPrefix(p, th[u].fd) THEN [th[u] EXCEPT !.fd = Unlinked]
     ELSE th[u]]

Init ==
  /\ fs = (DbDir :> DirNode)
  /\ mutex = 0
  /\ mutexes = <<>>
  /\ locks = <<>>
  /\ th = [t \in Threads |-> IdleThread]
  /\ up = TRUE
  /\ ops = 0
  /\ crashes = 0
  /\ written = {}

CanCall(t) ==
  up /\ th[t].pc = "idle" /\ ops < MaxOps

-----------------------------------------------------------------------------
(* getOrCreateMutex, and the Lock of the mutex it returns.                 *)

\* getOrCreateMutex without the lookup: every call makes a lock and stores it.
getOrCreateMutexNoLookup(ms, lk, collection) ==
  [mutexes |-> [x \in DOMAIN ms \cup {collection} |->
                  IF x = collection THEN Len(lk) + 1 ELSE ms[x]],
   locks |-> Append(lk, 0),
   m |-> Len(lk) + 1]

\* m, ok := d.mutexes[collection]; if !ok { m = &sync.Mutex{}; d.mutexes[collection] = m }
getOrCreateMutex(ms, lk, collection) ==
  IF collection \in DOMAIN ms
  THEN [mutexes |-> ms, locks |-> lk, m |-> ms[collection]]
  ELSE [mutexes |-> (collection :> (Len(lk) + 1)) @@ ms,
        locks |-> Append(lk, 0),
        m |-> Len(lk) + 1]

\* d.mutex.Lock()
GetMutexLock(t) ==
  /\ th[t].pc = "gm_lock"
  /\ mutex = 0
  /\ mutex' = t
  /\ th' = [th EXCEPT ![t].pc = "gm_body"]
  /\ UNCHANGED <<fs, mutexes, locks, up, ops, crashes, written>>

\* The body of getOrCreateMutex without its deferred d.mutex.Unlock().
GetMutexBodyKeepsMutex(t) ==
  /\ th[t].pc = "gm_body"
  /\ LET g == getOrCreateMutex(mutexes, locks, th[t].c)
     IN /\ mutexes' = g.mutexes
        /\ locks' = g.locks
        /\ th' = [th EXCEPT ![t].pc = "lock", ![t].m = g.m]
  /\ UNCHANGED <<mutex, fs, up, ops, crashes, written>>

\* The body of getOrCreateMutex, and its deferred d.mutex.Unlock().
GetMutexBody(t) ==
  /\ th[t].pc = "gm_body"
  /\ LET g == getOrCreateMutex(mutexes, locks, th[t].c)
     IN /\ mutexes' = g.mutexes
        /\ locks' = g.locks
        /\ th' = [th EXCEPT ![t].pc = "lock", ![t].m = g.m]
  /\ mutex' = 0
  /\ UNCHANGED <<fs, up, ops, crashes, written>>

\* mutex.Lock() in Write and Delete: waits while another thread holds the lock.
LockMutex(t) ==
  /\ th[t].pc = "lock"
  /\ locks[th[t].m] = 0
  /\ locks' = [locks EXCEPT ![th[t].m] = t]
  /\ th' = [th EXCEPT ![t].pc = IF th[t].op = "Write" THEN "w_mkdir" ELSE "d_stat"]
  /\ UNCHANGED <<fs, mutex, mutexes, up, ops, crashes, written>>

-----------------------------------------------------------------------------
(* Write.                                                                  *)

\* Write with the check of the resource name left out.
WriteArgErrNoResource(collection, resource) ==
  IF collection = <<>> THEN "MissingCollection" ELSE "nil"

\* The two checks at the head of Write.
WriteArgErr(collection, resource) ==
  IF collection = <<>> THEN "MissingCollection"
  ELSE IF resource = <<>> THEN "MissingResource"
  ELSE "nil"

WriteCall(t, c, r, v) ==
  /\ CanCall(t)
  /\ ops' = ops + 1
  /\ th' = [th EXCEPT ![t] =
              IF WriteArgErr(c, r) # "nil"
              THEN Returned(Enter("Write", c, r, v, "idle"), WriteArgErr(c, r), NoValue, <<>>)
              ELSE Enter("Write", c, r, v, "gm_lock")]
  /\ UNCHANGED <<fs, mutex, mutexes, locks, up, crashes, written>>

\* os.MkdirAll(dir, 0755), then json.MarshalIndent and the appended newline.
WriteMkdir(t) ==
  /\ th[t].pc = "w_mkdir"
  /\ LET dir == CollectionDir(th[t].c)
         err == IF MkdirAllErr(fs, dir) # "nil" THEN MkdirAllErr(fs, dir)
                ELSE MarshalErr(th[t].v)
     IN /\ fs' = MkdirAllFs(fs, dir)
        /\ IF err # "nil"
           THEN /\ th' = [th EXCEPT ![t] = Returned(th[t], err, NoValue, <<>>)]
                /\ locks' = Unlock(locks, th[t].m)
           ELSE /\ th' = [th EXCEPT ![t].pc = "w_open"]
                /\ UNCHANGED locks
  /\ UNCHANGED <<mutex, mutexes, up, ops, crashes, written>>

\* os.WriteFile(tmpPath, b, 0644): the open that creates or truncates.
WriteOpen(t) ==
  /\ th[t].pc = "w_open"
  /\ LET tmp == tmpPath(th[t].c, th[t].r)
         err == OpenTruncErr(fs, tmp)
     IN /\ fs' = OpenTruncFs(fs, tmp)
        /\ IF err # "nil"
           THEN /\ th' = [th EXCEPT ![t] = Returned(th[t], err, NoValue, <<>>)]
                /\ locks' = Unlock(locks, th[t].m)
           ELSE /\ th' = [th EXCEPT ![t].pc = "w_write", ![t].fd = tmp]
                /\ UNCHANGED locks
  /\ UNCHANGED <<mutex, mutexes, up, ops, crashes, written>>

\* os.WriteFile(tmpPath, b, 0644): the write and the close.
WriteData(t) ==
  /\ th[t].pc = "w_write"
  /\ fs' = WriteFdFs(fs, th[t].fd, Serialize(th[t].v))
  /\ th' = [th EXCEPT ![t].pc = "w_rename", ![t].fd = NoFd]
  /\ UNCHANGED <<mutex, mutexes, locks, up, ops, crashes, written>>

\* return os.Rename(tmpPath, fnlPath), and the deferred mutex.Unlock().
WriteRename(t) ==
  /\ th[t].pc = "w_rename"
  /\ LET tmp == tmpPath(th[t].c, th[t].r)
         fnl == fnlPath(th[t].c, th[t].r)
         err == RenameErr(fs, tmp, fnl)
     IN /\ fs' = RenameFs(fs, tmp, fnl)
        /\ th' = [(IF err = "nil" THEN FdsAfterRename(t, tmp, fnl) ELSE th)
                    EXCEPT ![t] = Returned(th[t], err, NoValue, <<>>)]
        /\ written' = IF err = "nil" THEN written \cup {<<th[t].c, th[t].r, th[t].v>>} ELSE written
  /\ locks' = Unlock(locks, th[t].m)
  /\ UNCHANGED <<mutex, mutexes, up, ops, crashes>>

-----------------------------------------------------------------------------
(* Read.                                                                   *)

\* The two checks at the head of Read.
ReadArgErr(collection, resource) ==
  IF collection = <<>> THEN "MissingCollection"
  ELSE IF resource = <<>> THEN "MissingResource"
  ELSE "nil"

ReadCall(t, c, r) ==
  /\ CanCall(t)
  /\ ops' = ops + 1
  /\ th' = [th EXCEPT ![t] =
              IF ReadArgErr(c, r) # "nil"
              THEN Returned(Enter("Read", c, r, NoValue, "idle"), ReadArgErr(c, r), NoValue, <<>>)
              ELSE Enter("Read", c, r, NoValue, "r_stat")]
  /\ UNCHANGED <<fs, mutex, mutexes, locks, up, crashes, written>>

\* if _, err := stat(record); err != nil { return err }
ReadStat(t) ==
  /\ th[t].pc = "r_stat"
  /\ LET s == stat(fs, RecordPath(th[t].c, th[t].r))
     IN th' = [th EXCEPT ![t] =
                 IF IsErrno(s) THEN Returned(th[t], s, NoValue, <<>>)
                 ELSE [th[t] EXCEPT !.pc = "r_read"]]
  /\ UNCHANGED <<fs, mutex, mutexes, locks, up, ops, crashes, written>>

\* The error and the value of os.ReadFile(record+".json") and json.Unmarshal(b, &v).
ReadFileErrOf(f, c, r) ==
  LET p == AddExt(RecordPath(c, r), ".json")
  IN IF ReadFileErr(f, p) # "nil" THEN ReadFileErr(f, p)
     ELSE UnmarshalErr(ReadFileData(f, p))

ReadFileValOf(f, c, r) ==
  LET p == AddExt(RecordPath(c, r), ".json")
  IN IF ReadFileErrOf(f, c, r) # "nil" THEN NoValue
     ELSE Unmarshal(ReadFileData(f, p))

ReadFile(t) ==
  /\ th[t].pc = "r_read"
  /\ th' = [th EXCEPT ![t] = Returned(th[t], ReadFileErrOf(fs, th[t].c, th[t].r),
                                      ReadFileValOf(fs, th[t].c, th[t].r), <<>>)]
  /\ UNCHANGED <<fs, mutex, mutexes, locks, up, ops, crashes, written>>

-----------------------------------------------------------------------------
(* ReadAll.                                                                *)

ReadAllArgErr(collection) ==
  IF collection = <<>> THEN "MissingCollection" ELSE "nil"

ReadAllCall(t, c) ==
  /\ CanCall(t)
  /\ ops' = ops + 1
  /\ th' = [th EXCEPT ![t] =
              IF ReadAllArgErr(c) # "nil"
              THEN Returned(Enter("ReadAll", c, <<>>, NoValue, "idle"), ReadAllArgErr(c), NoValue, <<>>)
              ELSE Enter("ReadAll", c, <<>>, NoValue, "ra_stat")]
  /\ UNCHANGED <<fs, mutex, mutexes, locks, up, crashes, written>>

\* if _, err := stat(dir); err != nil { return nil, err }
ReadAllStat(t) ==
  /\ th[t].pc = "ra_stat"
  /\ LET s == stat(fs, CollectionDir(th[t].c))
     IN th' = [th EXCEPT ![t] =
                 IF IsErrno(s) THEN Returned(th[t], s, NoValue, <<>>)
                 ELSE [th[t] EXCEPT !.pc = "ra_list"]]
  /\ UNCHANGED <<fs, mutex, mutexes, locks, up, ops, crashes, written>>

\* files, _ := os.ReadDir(dir); with no file to read the loop ends at once.
ReadAllList(t) ==
  /\ th[t].pc = "ra_list"
  /\ LET files == ReadDirNames(fs, CollectionDir(th[t].c))
     IN th' = [th EXCEPT ![t] =
                 IF files = <<>> THEN Returned(th[t], "nil", NoValue, <<>>)
                 ELSE [th[t] EXCEPT !.pc = "ra_file", !.files = files]]
  /\ UNCHANGED <<fs, mutex, mutexes, locks, up, ops, crashes, written>>

\* One turn of the loop: os.ReadFile(filepath.Join(dir, file.Name())).
ReadAllFile(t) ==
  /\ th[t].pc = "ra_file"
  /\ LET p == Append(CollectionDir(th[t].c), Head(th[t].files))
         err == ReadFileErr(fs, p)
         recs == Append(th[t].recs, ReadFileData(fs, p))
     IN th' = [th EXCEPT ![t] =
                 IF err # "nil" THEN Returned(th[t], err, NoValue, <<>>)
                 ELSE IF Tail(th[t].files) = <<>> THEN Returned(th[t], "nil", NoValue, recs)
                 ELSE [th[t] EXCEPT !.files = Tail(@), !.recs = recs]]
  /\ UNCHANGED <<fs, mutex, mutexes, locks, up, ops, crashes, written>>

-----------------------------------------------------------------------------
(* Read and ReadAll run from call to return on one directory tree, no      *)
(* other thread stepping in between.                                       *)

ReadErr(f, c, r) ==
  IF ReadArgErr(c, r) # "nil" THEN ReadArgErr(c, r)
  ELSE IF IsErrno(stat(f, RecordPath(c, r))) THEN stat(f, RecordPath(c, r))
  ELSE ReadFileErrOf(f, c, r)

ReadVal(f, c, r) ==
  IF ReadErr(f, c, r) # "nil" THEN NoValue ELSE ReadFileValOf(f, c, r)

ReadAllErr(f, c) ==
  LET dir == CollectionDir(c)
      files == ReadDirNames(f, dir)
      bad == {i \in 1..Len(files) : ReadFileErr(f, Append(dir, files[i])) # "nil"}
  IN IF ReadAllArgErr(c) # "nil" THEN ReadAllArgErr(c)
     ELSE IF IsErrno(stat(f, dir)) THEN stat(f, dir)
     ELSE IF bad = {} THEN "nil"
     ELSE ReadFileErr(f, Append(dir, files[CHOOSE i \in bad : \A j \in bad : i <= j]))

ReadAllRecords(f, c) ==
  LET dir == CollectionDir(c)
      files == ReadDirNames(f, dir)
  IN IF ReadAllErr(f, c) # "nil" THEN <<>>
     ELSE [i \in 1..Len(files) |-> ReadFileData(f, Append(dir, files[i]))]

-----------------------------------------------------------------------------
(* Delete.                                                                 *)

\* Delete checks neither name.
DeleteCall(t, c, r) ==
  /\ CanCall(t)
  /\ ops' = ops + 1
  /\ th' = [th EXCEPT ![t] = Enter("Delete", c, r, NoValue, "gm_lock")]
  /\ UNCHANGED <<fs, mutex, mutexes, locks, up, crashes, written>>

\* switch fi, err := stat(dir); case fi == nil, err != nil: return fmt.Errorf(...)
DeleteStat(t) ==
  /\ th[t].pc = "d_stat"
  /\ LET s == stat(fs, DeleteTarget(th[t].c, th[t].r))
     IN IF IsErrno(s)
        THEN /\ th' = [th EXCEPT ![t] = Returned(th[t], "UnableToFind", NoValue, <<>>)]
             /\ locks' = Unlock(locks, th[t].m)
        ELSE /\ th' = [th EXCEPT ![t].pc = "d_remove", ![t].fi = s]
             /\ UNCHANGED locks
  /\ UNCHANGED <<fs, mutex, mutexes, up, ops, crashes, written>>

\* Both cases of the switch removing dir.
RemovedPathNoExt(fi, dir) ==
  dir

\* case fi.Mode().IsDir(): os.RemoveAll(dir); case fi.Mode().IsRegular(): os.RemoveAll(dir + ".json")
RemovedPath(fi, dir) ==
  IF fi = "dir" THEN dir ELSE AddExt(dir, ".json")

\* What is still written after Delete(c, r) has returned nil.
WrittenAfterDelete(w, c, r) ==
  {x \in w : x[1] # c \/ (r # <<>> /\ x[2] # r)}

DeleteRemove(t) ==
  /\ th[t].pc = "d_remove"
  /\ LET p == RemovedPath(th[t].fi, DeleteTarget(th[t].c, th[t].r))
     IN /\ fs' = RemoveAllFs(fs, p)
        /\ th' = [FdsAfterRemove(p) EXCEPT ![t] = Returned(th[t], "nil", NoValue, <<>>)]
  /\ written' = WrittenAfterDelete(written, th[t].c, th[t].r)
  /\ locks' = Unlock(locks, th[t].m)
  /\ UNCHANGED <<mutex, mutexes, up, ops, crashes>>

-----------------------------------------------------------------------------
(* The process: an interruption ends every call where it stands and loses  *)
(* the Driver; New makes the next one.                                     *)

Crash ==
  /\ up
  /\ crashes < MaxCrashes
  /\ \E t \in Threads : th[t].pc # "idle"
  /\ up' = FALSE
  /\ crashes' = crashes + 1
  /\ th' = [t \in Threads |-> IdleThread]
  /\ mutex' = 0
  /\ mutexes' = <<>>
  /\ locks' = <<>>
  /\ UNCHANGED <<fs, ops, written>>

\* New that makes the root directory anew, whatever is there.
NewFsFresh(f) ==
  (DbDir :> DirNode)

\* The error New returns: nil when os.Stat(dir) succeeds, that of os.MkdirAll otherwise.
NewErr(f) ==
  IF ~IsErrno(osStat(f, DbDir)) THEN "nil" ELSE MkdirAllErr(f, DbDir)

\* if _, err := os.Stat(dir); err == nil { return &driver, nil }; return &driver, os.MkdirAll(dir, 0755)
NewFs(f) ==
  IF ~IsErrno(osStat(f, DbDir)) THEN f ELSE MkdirAllFs(f, DbDir)

New ==
  /\ ~up
  /\ up' = TRUE
  /\ fs' = NewFs(fs)
  /\ mutex' = 0
  /\ mutexes' = <<>>
  /\ locks' = <<>>
  /\ UNCHANGED <<th, ops, crashes, written>>

-----------------------------------------------------------------------------

Next ==
  \/ \E t \in Threads :
       \/ \E c \in CollectionNames, r \in ResourceNames, v \in WriteValues : WriteCall(t, c, r, v)
       \/ \E c \in CollectionNames, r \in ResourceNames : ReadCall(t, c, r)
       \/ \E c \in CollectionNames : ReadAllCall(t, c)
       \/ \E c \in CollectionNames, r \in ResourceNames : DeleteCall(t, c, r)
       \/ GetMutexLock(t)
       \/ GetMutexBody(t)
       \/ LockMutex(t)
       \/ WriteMkdir(t)
       \/ WriteOpen(t)
       \/ WriteData(t)
       \/ WriteRename(t)
       \/ ReadStat(t)
       \/ ReadFile(t)
       \/ ReadAllStat(t)
       \/ ReadAllList(t)
       \/ ReadAllFile(t)
       \/ DeleteStat(t)
       \/ DeleteRemove(t)
  \/ Crash
  \/ New

Spec ==
  Init /\ [][Next]_vars

\* The callers of one (collection, resource): every call is a Write or a Read of
\* the pair the first call named, and the process is not interrupted.
SameTarget(c, r) ==
  /\ WriteArgErr(c, r) = "nil"
  /\ \A u \in Threads : th[u].op = "none" \/ (th[u].c = c /\ th[u].r = r)

NextRW ==
  \E t \in Threads :
    \/ \E c \in CollectionNames, r \in ResourceNames, v \in Values :
         SameTarget(c, r) /\ WriteCall(t, c, r, v)
    \/ \E c \in CollectionNames, r \in ResourceNames :
         SameTarget(c, r) /\ ReadCall(t, c, r)
    \/ GetMutexLock(t)
    \/ GetMutexBody(t)
    \/ LockMutex(t)
    \/ WriteMkdir(t)
    \/ WriteOpen(t)
    \/ WriteData(t)
    \/ WriteRename(t)
    \/ ReadStat(t)
    \/ ReadFile(t)

SpecRW ==
  Init /\ [][NextRW]_vars

-----------------------------------------------------------------------------
(* What the claims speak of.                                               *)

HasReturned(t, op) ==
  th[t].pc = "idle" /\ th[t].op = op

AllIdle ==
  \A t \in Threads : th[t].pc = "idle"

\* The error kinds of the specification.
IsNotFound(err) ==
  err \in {"ENOENT", "UnableToFind"}

IsInvalidArgument(err) ==
  err \in {"MissingCollection", "MissingResource"}

\* No thread other than t is inside a Write or a Delete.
Quiet(t) ==
  \A u \in Threads \ {t} : th[u].pc = "idle" \/ th[u].op \in {"Read", "ReadAll"}

ValidNames(c, r) ==
  c # <<>> /\ r # <<>>

SerializedValues ==
  {Serialize(v) : v \in Values}

\* The step is thread t's call of an operation.
IsCallBy(t) ==
  ops' = ops + 1 /\ \A u \in Threads \ {t} : th'[u] = th[u]

\* The step is thread t's return from the place pc of its operation with err.
IsReturnFrom(t, pc, err) ==
  th[t].pc = pc /\ th'[t].pc = "idle" /\ th'[t].err = err

\* C1: at every moment, a crash of Write between the temp-file write and the
\* rename included, the final file <collection>/<resource>.json either does not
\* exist or is a regular file that holds the complete serialization of a value
\* passed to Write.
C1_FinalFileNeverPartial ==
  \A c \in CollectionNames, r \in ResourceNames :
    (ValidNames(c, r) /\ Exists(fs, fnlPath(c, r)))
      => /\ IsFileAt(fs, fnlPath(c, r))
         /\ fs[fnlPath(c, r)].data \in SerializedValues

\* Thread t is a Write between its first filesystem step (mkdir) and its last.
WriteUnderWay(t) ==
  th[t].op = "Write" /\ th[t].pc \in {"w_open", "w_write", "w_rename"}

\* The step is a filesystem step (mkdir, temp write, rename, remove) of thread t.
IsFsStepBy(t) ==
  /\ th[t].pc \in {"w_mkdir", "w_open", "w_write", "w_rename", "d_remove"}
  /\ th'[t].pc # th[t].pc
  /\ up'

\* C2: no filesystem step of a Write or Delete happens between the first and the
\* last filesystem step of another Write whose collection directory is the same.
C2_NoInterleavingInOneDirectory ==
  [][\A t1 \in Threads, t2 \in Threads :
       (t1 # t2 /\ WriteUnderWay(t1) /\ IsFsStepBy(t2))
         => CollectionDir(th[t1].c) # CollectionDir(th[t2].c)]_vars

C6_EmptyCollectionRejected ==
  [][\A t \in Threads :
       (th[t].op # "none" /\ th[t].c = <<>> /\ th[t].pc # "idle" /\ th'[t].pc # th[t].pc)
         => (fs' = fs /\ ~(th'[t].pc = "idle" /\ th'[t].err = "nil"))]_vars

\* C7: a Write with an empty collection or resource name returns an
\* InvalidArgument error at once: the directory tree, the registry and every lock
\* are as before.
C7_WriteRejectsEmptyNames ==
  [][\A t \in Threads :
       (IsCallBy(t) /\ th'[t].op = "Write" /\ ~ValidNames(th'[t].c, th'[t].r))
         => /\ th'[t].pc = "idle"
            /\ IsInvalidArgument(th'[t].err)
            /\ fs' = fs /\ mutexes' = mutexes /\ locks' = locks /\ mutex' = mutex]_vars

\* One Write was rejected for its collection name, one for its resource name, and
\* nothing was made.
C7_Witness ==
  /\ \E t \in Threads : HasReturned(t, "Write") /\ th[t].err = "MissingCollection"
  /\ \E t \in Threads : HasReturned(t, "Write") /\ th[t].err = "MissingResource"
                          /\ th[t].c # <<>>
  /\ fs = (DbDir :> DirNode)
  /\ mutexes = <<>>

\* The directory tree is as the Delete of thread t found it.
AsExamined(t) ==
  stat(fs, DeleteTarget(th[t].c, th[t].r)) = th[t].fi

\* C8: after Delete(collection, "") has returned nil the collection directory is
\* gone, no resource written under the collection exists, and ReadAll(collection)
\* fails with NotFound.
C8_DeleteCollectionThenReadAll ==
  [][\A t \in Threads :
       (/\ IsReturnFrom(t, "d_remove", "nil")
        /\ th[t].c # <<>> /\ th[t].r = <<>>
        /\ Quiet(t) /\ AsExamined(t))
         => /\ ~Exists(fs', CollectionDir(th[t].c))
            /\ \A w \in written : w[1] = th[t].c => ~Exists(fs', fnlPath(w[1], w[2]))
            /\ IsNotFound(ReadAllErr(fs', th[t].c))]_vars

\* C9 as claimed: after Delete(collection, resource) with a non-empty resource
\* name has returned nil, in every directory layout, the file
\* <collection>/<resource>.json does not exist and Read fails with NotFound.
C9_DeleteRemovesFileAlways ==
  [][\A t \in Threads :
       (/\ IsReturnFrom(t, "d_remove", "nil")
        /\ ValidNames(th[t].c, th[t].r)
        /\ Quiet(t) /\ AsExamined(t))
         => /\ ~Exists(fs', AddExt(RecordPath(th[t].c, th[t].r), ".json"))
            /\ IsNotFound(ReadErr(fs', th[t].c, th[t].r))]_vars

\* C9 as amended: when the target Delete found is a regular file, the file
\* <collection>/<resource>.json is gone after Delete has returned nil and Read
\* fails with NotFound; when it found a directory, the file is as before.
C9_DeleteRemovesFileUnlessDirectory ==
  [][\A t \in Threads :
       (IsReturnFrom(t, "d_remove", "nil") /\ ValidNames(th[t].c, th[t].r))
         => LET json == AddExt(RecordPath(th[t].c, th[t].r), ".json")
            IN /\ th[t].fi = "file"
                    => (~Exists(fs', json) /\ IsNotFound(ReadErr(fs', th[t].c, th[t].r)))
               /\ (th[t].fi = "dir" /\ Exists(fs, json))
                    => (Exists(fs', json) /\ fs'[json] = fs[json])]_vars

\* A resource was written, its Delete has returned nil, the file is gone and Read
\* fails with NotFound.
C9_Witness ==
  \E t \in Threads, u \in Threads :
    /\ HasReturned(t, "Delete") /\ th[t].err = "nil" /\ ValidNames(th[t].c, th[t].r)
    /\ HasReturned(u, "Write") /\ th[u].err = "nil"
    /\ th[u].c = th[t].c /\ th[u].r = th[t].r
    /\ ~Exists(fs, fnlPath(th[t].c, th[t].r))
    /\ IsNotFound(ReadErr(fs, th[t].c, th[t].r))

\* No Write of the file <c>/<r>.json, under any spelling of its names, has
\* returned nil without a Delete of the names it gave since.
NeverWritten(c, r) ==
  \A w \in written : fnlPath(w[1], w[2]) # fnlPath(c, r)

\* C10 as claimed: Read and Delete of a (collection, resource) never written, or
\* deleted and not written again, return NotFound and leave the tree as it is.
C10_NeverWrittenIsNotFound ==
  [][\A t \in Threads :
       (/\ ValidNames(th[t].c, th[t].r) /\ NeverWritten(th[t].c, th[t].r)
        /\ th'[t].pc # th[t].pc /\ up')
         => /\ (th[t].pc \in {"r_stat", "r_read"} /\ th'[t].pc = "idle")
                 => (IsNotFound(th'[t].err) /\ fs' = fs)
            /\ th[t].pc = "d_stat"
                 => (th'[t].pc = "idle" /\ IsNotFound(th'[t].err) /\ fs' = fs)]_vars

\* C10 as amended: Read returns NotFound when nothing is at
\* <collection>/<resource>.json, Delete returns NotFound when nothing is at
\* <collection>/<resource> nor at <collection>/<resource>.json, and both leave
\* the tree as it is.
C10_AbsentIsNotFound ==
  [][\A t \in Threads :
       (ValidNames(th[t].c, th[t].r) /\ th'[t].pc # th[t].pc /\ up')
         => LET bare == RecordPath(th[t].c, th[t].r)
                json == AddExt(bare, ".json")
            IN /\ (th[t].pc \in {"r_stat", "r_read"} /\ th'[t].pc = "idle"
                    /\ osStat(fs, json) = "ENOENT")
                    => (IsNotFound(th'[t].err) /\ fs' = fs)
               /\ (th[t].pc = "r_read" /\ osStat(fs, json) = "ENOENT")
                    => th'[t].pc = "idle"
               /\ (th[t].pc = "d_stat" /\ osStat(fs, bare) = "ENOENT"
                    /\ osStat(fs, json) = "ENOENT")
                    => (th'[t].pc = "idle" /\ IsNotFound(th'[t].err) /\ fs' = fs)]_vars

\* A Read and a Delete of names at which nothing exists have returned NotFound.
C10_Witness ==
  \E t \in Threads, u \in Threads :
    /\ HasReturned(t, "Read") /\ th[t].err = "ENOENT" /\ ValidNames(th[t].c, th[t].r)
    /\ HasReturned(u, "Delete") /\ th[u].err = "UnableToFind" /\ ValidNames(th[u].c, th[u].r)
    /\ osStat(fs, AddExt(RecordPath(th[t].c, th[t].r), ".json")) = "ENOENT"
    /\ osStat(fs, RecordPath(th[u].c, th[u].r)) = "ENOENT"
    /\ osStat(fs, AddExt(RecordPath(th[u].c, th[u].r), ".json")) = "ENOENT"

\* C3: when the callers write one (collection, resource) concurrently, every Write
\* returns nil, and once all have returned the final file is a regular file that
\* holds the complete serialization of one of the values written.
C3_ConcurrentWritesOfOneResource ==
  /\ \A t \in Threads : HasReturned(t, "Write") => th[t].err = "nil"
  /\ (AllIdle /\ \E t \in Threads : th[t].op = "Write")
       => \E w \in written :
            /\ IsFileAt(fs, fnlPath(w[1], w[2]))
            /\ fs[fnlPath(w[1], w[2])].data = Serialize(w[3])

\* Two Writes of different values to the one resource have returned nil, and the
\* file holds the value of the first thread.
C3_Witness ==
  /\ AllIdle
  /\ \A t \in Threads : th[t].op = "Write" /\ th[t].err = "nil"
  /\ \E t \in Threads : th[t].v # th[1].v
  /\ IsFileAt(fs, fnlPath(th[1].c, th[1].r))
  /\ fs[fnlPath(th[1].c, th[1].r)].data = Serialize(th[1].v)

\* C5: a Read that runs beside Writes of the same (collection, resource) and
\* returns nil yields one complete value that a Write of that resource wrote.
C5_ConcurrentReadSeesWholeValue ==
  \A t \in Threads :
    (HasReturned(t, "Read") /\ th[t].err = "nil")
      => \E w \in written : w[1] = th[t].c /\ w[2] = th[t].r /\ w[3] = th[t].val

\* A Read of the resource has returned the value on file whole while a Write of
\* another value to it is under way, its temporary file written and not yet renamed.
C5_Witness ==
  \E t \in Threads, u \in Threads :
    /\ HasReturned(t, "Read") /\ th[t].err = "nil" /\ th[t].val \in Values
    /\ th[u].op = "Write" /\ th[u].pc = "w_rename" /\ th[u].v # th[t].val
    /\ th[u].c = th[t].c /\ th[u].r = th[t].r
    /\ IsFileAt(fs, tmpPath(th[u].c, th[u].r))
    /\ fs[tmpPath(th[u].c, th[u].r)].data = Serialize(th[u].v)
    /\ IsFileAt(fs, fnlPath(th[t].c, th[t].r))
    /\ fs[fnlPath(th[t].c, th[t].r)].data = Serialize(th[t].val)

\* The step is a step of thread t inside its operation: its place or its locals
\* change (another thread's rename or removal changes no more of t than where
\* its open descriptor points).
IsStepOf(t) ==
  th[t].pc # "idle" /\ [th'[t] EXCEPT !.fd = th[t].fd] # th[t] /\ up'

\* C11: ReadAll(collection) fails with NotFound whenever no directory is at the
\* collection's path: its existence check does not pass then, and its listing,
\* should the directory have gone since the check, does not return nil.
C11_ReadAllNeedsDirectory ==
  [][\A t \in Threads :
       (IsStepOf(t) /\ th[t].pc \in {"ra_stat", "ra_list"}
        /\ ~IsDirAt(fs, CollectionDir(th[t].c)))
         => (th'[t].pc = "idle" /\ IsNotFound(th'[t].err))]_vars

\* The name of a temporary file of Write.
IsTmpName(n) ==
  n # <<>> /\ n[Len(n)] = ".tmp"

\* C13: no entry that ReadAll returns is the content of a temporary file: the
\* turn of its loop that meets a name ending in .json.tmp adds no record.
C13_TempFilesAreNoRecords ==
  [][\A t \in Threads :
       (IsStepOf(t) /\ th[t].pc = "ra_file" /\ IsTmpName(Head(th[t].files)))
         => Len(th'[t].recs) # Len(th[t].recs) + 1]_vars

-----------------------------------------------------------------------------
(* One caller at a time: a call is made only when every earlier call has   *)
(* returned.  The names are "a" and "a/b" for collections, "a" and "b" for *)
(* resources.  The process can still be interrupted inside a call.         *)

SeqCollections ==
  {<<"a">>, <<"a", "/", "b">>}

SeqResources ==
  {<<"a">>, <<"b">>}

NextSeq ==
  \/ \E t \in Threads :
       \/ \E c \in SeqCollections, r \in SeqResources, v \in WriteValues :
            AllIdle /\ WriteCall(t, c, r, v)
       \/ \E c \in SeqCollections : AllIdle /\ ReadAllCall(t, c)
       \/ \E c \in SeqCollections, r \in SeqResources \cup {<<>>} :
            AllIdle /\ DeleteCall(t, c, r)
       \/ GetMutexLock(t)
       \/ GetMutexBody(t)
       \/ LockMutex(t)
       \/ WriteMkdir(t)
       \/ WriteOpen(t)
       \/ WriteData(t)
       \/ WriteRename(t)
       \/ ReadAllStat(t)
       \/ ReadAllList(t)
       \/ ReadAllFile(t)
       \/ DeleteStat(t)
       \/ DeleteRemove(t)
  \/ Crash
  \/ New

SpecSeq ==
  Init /\ [][NextSeq]_vars

\* The names directly under the directory of collection c.
NamesIn(f, c) ==
  {q[Len(q)] : q \in {x \in DOMAIN f : Len(x) = Len(CollectionDir(c)) + 1
                                        /\ IsPrefix(CollectionDir(c), x)}}

\* The resources stored in collection c: the regular files <resource>.json of its
\* directory.
StoredIn(f, c) ==
  {n \in NamesIn(f, c) : n[Len(n)] = ".json" /\ IsFileAt(f, Append(CollectionDir(c), n))}

\* No Write to collection c was interrupted: no temporary file is in its directory.
NoCrashedWrite(f, c) ==
  \A n \in NamesIn(f, c) : ~IsTmpName(n)

\* C12: callers not overlapping and no temporary file left in the collection, a
\* ReadAll(collection) that returns nil returns as many entries as the collection
\* stores resources, and its entries are, counted with repetition, the complete
\* contents of the resource files, each the serialization of a value written.
C12_ReadAllReturnsTheResources ==
  [][\A t \in Threads :
       (/\ IsStepOf(t) /\ th[t].op = "ReadAll"
        /\ th'[t].pc = "idle" /\ th'[t].err = "nil"
        /\ NoCrashedWrite(fs, th[t].c))
         => LET recs == th'[t].recs
                dir == CollectionDir(th[t].c)
                stored == StoredIn(fs, th[t].c)
            IN /\ Len(recs) = Cardinality(stored)
               /\ \A n \in stored :
                    Cardinality({i \in 1..Len(recs) : recs[i] = fs[Append(dir, n)].data})
                      = Cardinality({k \in stored : fs[Append(dir, k)].data = fs[Append(dir, n)].data})
               /\ \A i \in 1..Len(recs) : recs[i] \in SerializedValues]_vars

\* Two resources were written to a collection and ReadAll has returned their two
\* contents.
C12_Witness ==
  \E t \in Threads :
    /\ HasReturned(t, "ReadAll") /\ th[t].err = "nil" /\ Len(th[t].recs) = 2
    /\ Cardinality({w[2] : w \in {x \in written : x[1] = th[t].c}}) = 2
    /\ \A w \in written :
         /\ w[1] = th[t].c
         /\ IsFileAt(fs, fnlPath(w[1], w[2]))
         /\ \E i \in 1..2 : th[t].recs[i] = Serialize(w[3])
                              /\ fs[fnlPath(w[1], w[2])].data = th[t].recs[i]

\* C15: a Write that returns an error at the creation of the directory or at the
\* serialization of the value, no other call running, leaves the directory tree as
\* it was at its call.
C15_FailedWriteLeavesNoTrace ==
  [][\A t \in Threads :
       (/\ IsStepOf(t) /\ th[t].op = "Write" /\ th[t].pc = "w_mkdir"
        /\ th'[t].pc = "idle" /\ th'[t].err # "nil")
         => fs' = fs]_vars

-----------------------------------------------------------------------------

\* Thread t is where a Write or Delete holds its collection lock.
InCriticalSection(t) ==
  th[t].pc \in {"w_mkdir", "w_open", "w_write", "w_rename", "d_stat", "d_remove"}

\* C14: the registry lock is held by a thread exactly while it is in the
\* create-or-fetch step of getOrCreateMutex, never by one that holds or waits for
\* a collection lock; and a thread that waits for a collection lock waits for a
\* thread that gave the same collection name.
C14_RegistryLockOnlyInCreateOrFetch ==
  /\ \A t \in Threads : (mutex = t) <=> (th[t].pc = "gm_body")
  /\ mutex \in Threads \cup {0}
  /\ \A t \in Threads :
       (th[t].pc = "lock" /\ locks[th[t].m] # 0)
         => /\ th[locks[th[t].m]].c = th[t].c
            /\ InCriticalSection(locks[th[t].m])

\* Two threads are each inside the critical section of a different collection,
\* and a third operation could fetch its lock: the registry lock is free.
C14_Witness ==
  \E t \in Threads, u \in Threads :
    /\ InCriticalSection(t) /\ InCriticalSection(u)
    /\ CollectionDir(th[t].c) # CollectionDir(th[u].c)
    /\ th[t].m # th[u].m /\ locks[th[t].m] = t /\ locks[th[u].m] = u
    /\ mutex = 0

\* C16: the registry has as many locks as names, the lock a thread was given is
\* the one registered under the name it gave, and while the store lives no entry
\* of the registry goes or changes.
C16_OneLockPerName ==
  /\ [](/\ Len(locks) = Cardinality(DOMAIN mutexes)
        /\ \A c \in DOMAIN mutexes : mutexes[c] \in 1..Len(locks)
        /\ \A t \in Threads :
             th[t].m # 0 => (th[t].c \in DOMAIN mutexes /\ mutexes[th[t].c] = th[t].m))
  /\ [][(up /\ up')
          => \A c \in DOMAIN mutexes : c \in DOMAIN mutexes' /\ mutexes'[c] = mutexes[c]]_vars

\* Two threads asked for one name: one holds the lock registered under it, the
\* other waits for the same lock.
C16_Witness ==
  \E t \in Threads, u \in Threads :
    /\ t # u /\ th[t].c = th[u].c
    /\ th[t].pc = "lock" /\ InCriticalSection(u)
    /\ th[t].m = th[u].m /\ locks[th[u].m] = u
    /\ mutexes[th[t].c] = th[t].m
    /\ Cardinality(DOMAIN mutexes) = 1

\* C17: a collection lock is held only by a thread that is inside the critical
\* section of a Write or Delete and took that lock: none is held after a return.
C17_LockReleasedOnReturn ==
  \A m \in DOMAIN locks :
    locks[m] # 0
      => /\ locks[m] \in Threads
         /\ th[locks[m]].op \in {"Write", "Delete"}
         /\ InCriticalSection(locks[m])
         /\ th[locks[m]].m = m

\* A Write has returned an error from inside its critical section, a Delete has
\* returned that it found nothing, and every lock made is free.
C17_Witness ==
  \E t \in Threads, u \in Threads :
    /\ HasReturned(t, "Write") /\ th[t].err \in {"UnsupportedType", "ENOENT", "ENOTDIR"}
    /\ HasReturned(u, "Delete") /\ th[u].err = "UnableToFind"
    /\ locks # <<>>
    /\ \A m \in DOMAIN locks : locks[m] = 0

-----------------------------------------------------------------------------
(* Termination.  The callers give the collection names "a" and "a/" and    *)
(* the resource name "b"; the process is not interrupted.  The scheduler   *)
(* runs every goroutine that stays able to run: weak fairness of the steps *)
(* of each thread, the two Lock calls included (a goroutine blocked in     *)
(* sync.Mutex.Lock is woken when the mutex is free and stays free).        *)

LiveCollections ==
  {<<"a">>, <<"a", "/">>}

LiveResources ==
  {<<"b">>}

\* One value that serializes and one that does not.
LiveValues ==
  {Obj(<<"John">>), Chan}

\* The steps of thread t inside its operation.
Advance(t) ==
  \/ GetMutexLock(t)
  \/ LockMutex(t)
  \/ GetMutexBody(t)
  \/ WriteMkdir(t)
  \/ WriteOpen(t)
  \/ WriteData(t)
  \/ WriteRename(t)
  \/ ReadStat(t)
  \/ ReadFile(t)
  \/ ReadAllStat(t)
  \/ ReadAllList(t)
  \/ ReadAllFile(t)
  \/ DeleteStat(t)
  \/ DeleteRemove(t)

NextLive ==
  \E t \in Threads :
    \/ \E c \in LiveCollections, r \in LiveResources, v \in LiveValues : WriteCall(t, c, r, v)
    \/ \E c \in LiveCollections, r \in LiveResources : ReadCall(t, c, r)
    \/ \E c \in LiveCollections : ReadAllCall(t, c)
    \/ \E c \in LiveCollections, r \in LiveResources : DeleteCall(t, c, r)
    \/ Advance(t)

SpecLive ==
  /\ Init
  /\ [][NextLive]_vars
  /\ \A t \in Threads : WF_vars(Advance(t))

\* C18: every operation that was called returns: no thread stays inside a Write,
\* Read, ReadAll or Delete for ever, whatever the other threads call; each thread
\* is outside every call again and again.
C18_EveryCallReturns ==
  \A t \in Threads : []<>(th[t].pc = "idle")

\* All the calls the callers make have been made and have returned, a Write and a
\* Delete of one collection name by different threads among them.
C18_Witness ==
  /\ AllIdle /\ ops = MaxOps
  /\ \E t \in Threads, u \in Threads :
       /\ th[t].op = "Write" /\ th[t].err = "nil"
       /\ th[u].op = "Delete" /\ th[u].err = "nil"
       /\ th[t].c = th[u].c

-----------------------------------------------------------------------------

\* C19: New returns no error; on a root that exists it leaves the whole tree as
\* it is, on an absent root it makes the root; and New once more on the tree it
\* left changes nothing.
C19_NewIsIdempotent ==
  [][(~up /\ up')
       => /\ NewErr(fs) = "nil"
          /\ Exists(fs, DbDir) => fs' = fs
          /\ IsDirAt(fs', DbDir)
          /\ \A p \in DOMAIN fs : p \in DOMAIN fs' /\ fs'[p] = fs[p]
          /\ NewErr(fs') = "nil" /\ NewFs(fs') = fs']_vars

\* The process was interrupted, New has opened the store again, and a resource
\* written before is on file with its content.
C19_Witness ==
  /\ up /\ crashes > 0
  /\ \E w \in written :
       /\ IsFileAt(fs, fnlPath(w[1], w[2]))
       /\ fs[fnlPath(w[1], w[2])].data = Serialize(w[3])

\* Every regular file of f other than the final and the temporary file of
\* (collection, resource) is in g with the same content.
OtherFilesKept(f, g, c, r) ==
  \A p \in DOMAIN f :
    (f[p].kind = "file" /\ p # fnlPath(c, r) /\ p # tmpPath(c, r))
      => (p \in DOMAIN g /\ g[p] = f[p])

\* The step is a filesystem step of thread t's Write.
IsWriteStepOf(t) ==
  IsStepOf(t) /\ th[t].op = "Write" /\ th[t].pc \in {"w_mkdir", "w_open", "w_write", "w_rename"}

\* The step is the removal of thread t's Delete, called with a resource name.
IsDeleteStepOf(t) ==
  IsStepOf(t) /\ th[t].op = "Delete" /\ th[t].pc = "d_remove" /\ th[t].r # <<>>

\* C20 as claimed: the steps of a Write(collection, resource, v) and the removal
\* of a Delete(collection, resource) with a resource name leave every file other
\* than that resource's with its content.
C20_OnlyTheResourceChanges ==
  [][\A t \in Threads :
       (IsWriteStepOf(t) \/ IsDeleteStepOf(t))
         => OtherFilesKept(fs, fs', th[t].c, th[t].r)]_vars

\* C20 as amended: the same for Write, and for a Delete whose target was found to
\* be a regular file; a Delete whose target was found to be a directory leaves
\* every file outside that directory with its content.
C20_OnlyTheResourceOrDirectoryChanges ==
  [][\A t \in Threads :
       /\ (IsWriteStepOf(t) \/ (IsDeleteStepOf(t) /\ th[t].fi = "file"))
            => OtherFilesKept(fs, fs', th[t].c, th[t].r)
       /\ (IsDeleteStepOf(t) /\ th[t].fi = "dir")
            => \A p \in DOMAIN fs :
                 ~IsPrefix(DeleteTarget(th[t].c, th[t].r), p)
                   => (p \in DOMAIN fs' /\ fs'[p] = fs[p])]_vars

\* A Delete of one resource has returned nil, its file is gone, and another
\* resource written to the same collection is on file with its content.
C20_Witness ==
  \E t \in Threads :
    /\ HasReturned(t, "Delete") /\ th[t].err = "nil" /\ ValidNames(th[t].c, th[t].r)
    /\ ~Exists(fs, fnlPath(th[t].c, th[t].r))
    /\ \E w \in written :
         /\ w[1] = th[t].c /\ w[2] # th[t].r
         /\ IsFileAt(fs, fnlPath(w[1], w[2]))
         /\ fs[fnlPath(w[1], w[2])].data = Serialize(w[3])

====
